---- MODULE Spec2Model ----
(***************************************************************************)
(* The client recommendation engine of src/src/find_similar_clients.py:    *)
(* filter_client_df, similarity_score, get_closest_clients and             *)
(* generate_best_new_clients, over bounded client and transaction tables.  *)
(*                                                                         *)
(* A DataFrame is a sequence of rows, a row a record of its columns.  A    *)
(* Python dict is a sequence of <<key, value>> pairs with pairwise         *)
(* distinct keys, in insertion order (the iteration order of a dict).      *)
(***************************************************************************)
EXTENDS Integers, Sequences, FiniteSets, TLC

(***************************************************************************)
(* Bounds of the model.                                                    *)
(***************************************************************************)
MaxClients == 3
MaxTransactions == 1
MaxSeeds == 2
MaxNewClients == 3
MaxTopClients == 2

\* The client ids, in the order in which the bounded tables list them.
ClientIdOrder == <<"c1", "c2", "c3">>

ClientIds == { ClientIdOrder[k] : k \in DOMAIN ClientIdOrder }

IdIndex(id) == CHOOSE k \in DOMAIN ClientIdOrder : ClientIdOrder[k] = id

Flags == {0, 1}
Segments == {"LOYAL", "TOP"}
PremiumStatuses == {0, 1}
Countries == {"FR", "IT"}
Nationalities == {"FR", "IT"}
Cities == {"Paris", "Rome"}
Genders == {"F", "M"}

(***************************************************************************)
(* The columns of clients.csv the engine reads besides client_id and the   *)
(* contactability flags.                                                   *)
(***************************************************************************)
Profiles ==
    [client_segment : Segments, client_premium_status : PremiumStatuses,
     client_country : Countries, client_nationality : Nationalities,
     client_city : Cities, client_gender : Genders]

Profile(sg, ps, co, na, ci, ge) ==
    [client_segment |-> sg, client_premium_status |-> ps,
     client_country |-> co, client_nationality |-> na,
     client_city |-> ci, client_gender |-> ge]

(***************************************************************************)
(* The profiles of the clients of the bounded tables.  Among the three     *)
(* LOYAL/0 profiles every pair differs: the first two share country and    *)
(* gender only, the last two nationality and city only, the first and the  *)
(* last nothing.  The TOP profile shares country, nationality and city     *)
(* with the first and the premium one nationality and gender.              *)
(***************************************************************************)
TableProfiles ==
    { Profile("LOYAL", 0, "FR", "FR", "Paris", "F"),
      Profile("LOYAL", 0, "FR", "IT", "Rome", "F"),
      Profile("LOYAL", 0, "IT", "IT", "Rome", "M"),
      Profile("TOP", 0, "FR", "FR", "Paris", "M"),
      Profile("LOYAL", 1, "IT", "FR", "Rome", "F") }

\* A row of clients.csv.  The three channel flags are enumerated equal to
\* client_is_contactable; the code only drops them.
ClientRow(id, c, p) ==
    [client_id |-> id,
     client_is_phone_contactable |-> c,
     client_is_email_contactable |-> c,
     client_is_instant_messaging_contactable |-> c,
     client_is_contactable |-> c] @@ p

ClientRows == { ClientRow(id, c, p) : id \in ClientIds, c \in Flags, p \in TableProfiles }

TransactionRows == { [client_id |-> id] : id \in ClientIds }

SeqsUpTo(S, n) == UNION { [1..k -> S] : k \in 0..n }

(***************************************************************************)
(* The bounded tables.  client_id identifies a client: no two rows of      *)
(* clients.csv carry the same.  The code never compares two ids for order  *)
(* and reads transactions.csv only as the set of its client ids, so the    *)
(* rows of both tables are enumerated in the order of their ids: every     *)
(* other table is one of these with the ids renamed (clients) or the rows  *)
(* permuted (transactions).                                                *)
(***************************************************************************)
ClientTables ==
    { t \in SeqsUpTo(ClientRows, MaxClients) :
        \A j, k \in DOMAIN t :
            j < k => IdIndex(t[j].client_id) < IdIndex(t[k].client_id) }

TransactionTables ==
    { t \in SeqsUpTo(TransactionRows, MaxTransactions) :
        \A j, k \in DOMAIN t :
            j < k => IdIndex(t[j].client_id) <= IdIndex(t[k].client_id) }

(***************************************************************************)
(* Python dicts.                                                           *)
(***************************************************************************)
Keys(d) == { d[k][1] : k \in DOMAIN d }

Get(d, key) == d[CHOOSE k \in DOMAIN d : d[k][1] = key][2]

\* d[key] = value: an existing key keeps its place, a new key goes last.
DictSet(d, key, value) ==
    IF key \in Keys(d)
    THEN [k \in DOMAIN d |-> IF d[k][1] = key THEN <<key, value>> ELSE d[k]]
    ELSE Append(d, <<key, value>>)

RECURSIVE DictOf(_)
\* dict(items) and the dict comprehension: later items overwrite earlier ones.
DictOf(items) ==
    IF items = <<>> THEN <<>>
    ELSE LET n == Len(items)
         IN DictSet(DictOf(SubSeq(items, 1, n - 1)), items[n][1], items[n][2])

(***************************************************************************)
(* find_similar_clients.py                                                 *)
(***************************************************************************)
CLIENTS_SIMILARITY_RULES ==
    [same_country |-> 1, same_nationality |-> 3, same_city |-> 5, same_gender |-> 3]

ContactabilityColumns ==
    {"client_is_phone_contactable", "client_is_email_contactable",
     "client_is_instant_messaging_contactable", "client_is_contactable"}

\* filter_client_df without the query: every client is kept.
filter_client_df_unqueried(cdf, tdf) ==
    LET clients_with_transactions == { tdf[k].client_id : k \in DOMAIN tdf }
        dropped(r) == [c \in DOMAIN r \ ContactabilityColumns |-> r[c]]
    IN [k \in DOMAIN cdf |->
            ("has_already_done_transaction" :>
                (cdf[k].client_id \in clients_with_transactions))
            @@ dropped(cdf[k])]

\* filter_client_df leaving client_is_contactable in the frame.
filter_client_df_undropped(cdf, tdf) ==
    LET queried == SelectSeq(cdf, LAMBDA r : r.client_is_contactable = 1)
        clients_with_transactions == { tdf[k].client_id : k \in DOMAIN tdf }
        dropped(r) ==
            [c \in DOMAIN r \ (ContactabilityColumns \ {"client_is_contactable"}) |-> r[c]]
    IN [k \in DOMAIN queried |->
            ("has_already_done_transaction" :>
                (queried[k].client_id \in clients_with_transactions))
            @@ dropped(queried[k])]

filter_client_df(cdf, tdf) ==
    LET queried == SelectSeq(cdf, LAMBDA r : r.client_is_contactable = 1)
        clients_with_transactions == { tdf[k].client_id : k \in DOMAIN tdf }
        dropped(r) == [c \in DOMAIN r \ ContactabilityColumns |-> r[c]]
    IN [k \in DOMAIN queried |->
            ("has_already_done_transaction" :>
                (queried[k].client_id \in clients_with_transactions))
            @@ dropped(queried[k])]

\* filter_client_df setting its new column on the frame it was given.
filter_client_df_leaves_with_column(cdf, tdf) ==
    LET clients_with_transactions == { tdf[k].client_id : k \in DOMAIN tdf }
    IN << [k \in DOMAIN cdf |->
              ("has_already_done_transaction" :>
                  (cdf[k].client_id \in clients_with_transactions))
              @@ cdf[k]],
          tdf >>

\* The two frames as the call of filter_client_df leaves them to its caller:
\* query and drop (called without inplace) each build a new frame, the
\* column of lines 31-33 is set on that new frame, and transactions_df is
\* only read on line 30.
filter_client_df_leaves(cdf, tdf) == <<cdf, tdf>>

\* similarity_score with the weight of the country for the gender.
similarity_score_gender_as_country(r, cd) ==
    (IF r.client_country = cd.client_country
        THEN CLIENTS_SIMILARITY_RULES.same_country ELSE 0)
    + (IF r.client_nationality = cd.client_nationality
        THEN CLIENTS_SIMILARITY_RULES.same_nationality ELSE 0)
    + (IF r.client_city = cd.client_city
        THEN CLIENTS_SIMILARITY_RULES.same_city ELSE 0)
    + (IF r.client_gender = cd.client_gender
        THEN CLIENTS_SIMILARITY_RULES.same_country ELSE 0)

similarity_score(r, cd) ==
    (IF r.client_country = cd.client_country
        THEN CLIENTS_SIMILARITY_RULES.same_country ELSE 0)
    + (IF r.client_nationality = cd.client_nationality
        THEN CLIENTS_SIMILARITY_RULES.same_nationality ELSE 0)
    + (IF r.client_city = cd.client_city
        THEN CLIENTS_SIMILARITY_RULES.same_city ELSE 0)
    + (IF r.client_gender = cd.client_gender
        THEN CLIENTS_SIMILARITY_RULES.same_gender ELSE 0)

\* filtered_clients_df.query(f"client_id == '{client_id}'")
seed_rows(client_id, fdf) == SelectSeq(fdf, LAMBDA r : r.client_id = client_id)

\* similar_clients without the same_segment mask.
similar_clients_of_any_segment(cd, fdf) ==
    SelectSeq(fdf, LAMBDA r :
        /\ r.client_premium_status = cd.client_premium_status
        /\ r.has_already_done_transaction = FALSE)

\* similar_clients without the same_status mask.
similar_clients_of_any_status(cd, fdf) ==
    SelectSeq(fdf, LAMBDA r :
        /\ r.client_segment = cd.client_segment
        /\ r.has_already_done_transaction = FALSE)

\* filtered_clients_df[same_segment & same_status & has_never_done_transaction]
similar_clients(cd, fdf) ==
    SelectSeq(fdf, LAMBDA r :
        /\ r.client_segment = cd.client_segment
        /\ r.client_premium_status = cd.client_premium_status
        /\ r.has_already_done_transaction = FALSE)

\* The rows with similarity_score > 0, as the dict {client_id: score}.
closest_clients(cd, fdf) ==
    LET sc == similar_clients(cd, fdf)
        scored == [k \in DOMAIN sc |->
                      <<sc[k].client_id, similarity_score(sc[k], cd)>>]
    IN DictOf(SelectSeq(scored, LAMBDA p : p[2] > 0))

Return(value) == [raised |-> "none", value |-> value]
Raise(exception) == [raised |-> exception, value |-> <<>>]

\* get_closest_clients giving an unknown seed no closest client.
get_closest_clients_or_none(client_id, fdf) ==
    IF seed_rows(client_id, fdf) = <<>>
    THEN {Return(<<>>)}
    ELSE LET client_data == seed_rows(client_id, fdf)[1]
         IN IF similar_clients(client_data, fdf) = <<>>
            THEN {Raise("ValueError"), Return(<<>>)}
            ELSE {Return(closest_clients(client_data, fdf))}

(***************************************************************************)
(* The outcomes of get_closest_clients.  .iloc[0] of an empty query result *)
(* raises IndexError.  When no row passes the segment/status/transaction   *)
(* mask, DataFrame.apply(axis=1) of the empty frame gives back a frame,    *)
(* not a Series, and assigning it to the single column similarity_score    *)
(* raises ValueError or not with the pandas installed, which the           *)
(* repository does not pin: both outcomes are kept.                        *)
(***************************************************************************)
get_closest_clients(client_id, fdf) ==
    IF seed_rows(client_id, fdf) = <<>>
    THEN {Raise("IndexError")}
    ELSE LET client_data == seed_rows(client_id, fdf)[1]
         IN IF similar_clients(client_data, fdf) = <<>>
            THEN {Raise("ValueError"), Return(<<>>)}
            ELSE {Return(closest_clients(client_data, fdf))}

RECURSIVE add_scores_keeping_first(_, _)
\* add_scores without the += branch: a key keeps the score it got first.
add_scores_keeping_first(best, closest) ==
    IF closest = <<>> THEN best
    ELSE LET client == closest[1][1]
             score == closest[1][2]
             rest == SubSeq(closest, 2, Len(closest))
         IN IF client \in Keys(best)
            THEN add_scores_keeping_first(best, rest)
            ELSE add_scores_keeping_first(DictSet(best, client, score), rest)

RECURSIVE add_scores_overwriting(_, _)
\* add_scores with = for +=.
add_scores_overwriting(best, closest) ==
    IF closest = <<>> THEN best
    ELSE add_scores_overwriting(DictSet(best, closest[1][1], closest[1][2]),
                                SubSeq(closest, 2, Len(closest)))

RECURSIVE add_scores(_, _)
\* Lines 130-134: the items of one per-seed dict added into best_new_clients.
add_scores(best, closest) ==
    IF closest = <<>> THEN best
    ELSE LET client == closest[1][1]
             score == closest[1][2]
             rest == SubSeq(closest, 2, Len(closest))
         IN IF client \in Keys(best)
            THEN add_scores(DictSet(best, client, Get(best, client) + score), rest)
            ELSE add_scores(DictSet(best, client, score), rest)

\* sum_scores starting best_new_clients afresh for every per-seed dict.
sum_scores_of_last(all) ==
    IF all = <<>> THEN <<>> ELSE add_scores(<<>>, all[Len(all)])

RECURSIVE sum_scores(_)
\* Lines 128-134 over all_closest_clients.
sum_scores(all) ==
    IF all = <<>> THEN <<>>
    ELSE add_scores(sum_scores(SubSeq(all, 1, Len(all) - 1)), all[Len(all)])

\* sorted_reverse without the sort.
sorted_reverse_unsorted(items) == items

RECURSIVE sorted_reverse(_)
\* sorted(items, key=lambda item: item[1], reverse=True): stable, equal
\* scores keep their relative order.
sorted_reverse(items) ==
    IF items = <<>> THEN <<>>
    ELSE LET n == Len(items)
             head == sorted_reverse(SubSeq(items, 1, n - 1))
             last == items[n]
         IN SelectSeq(head, LAMBDA p : p[2] >= last[2])
            \o <<last>>
            \o SelectSeq(head, LAMBDA p : p[2] < last[2])

RECURSIVE closest_for_all(_, _)
\* Lines 122-126: the outcomes of the first loop, all_closest_clients or the
\* exception of the first iteration that raises.
closest_for_all(ids, fdf) ==
    IF ids = <<>> THEN {Return(<<>>)}
    ELSE LET n == Len(ids)
             before == closest_for_all(SubSeq(ids, 1, n - 1), fdf)
         IN { b \in before : b.raised # "none" }
            \cup { IF out.raised = "none"
                      THEN Return(Append(b.value, out.value))
                      ELSE Raise(out.raised) :
                   b \in { b \in before : b.raised = "none" },
                   out \in get_closest_clients(ids[n], fdf) }

\* The outcomes of one call of generate_best_new_clients.
generate_best_new_clients(ids, cdf, tdf) ==
    { IF all.raised = "none"
         THEN Return(DictOf(sorted_reverse(sum_scores(all.value))))
         ELSE all :
      all \in closest_for_all(ids, filter_client_df(cdf, tdf)) }

(***************************************************************************)
(* State.  The loaded tables and one call of generate_best_new_clients on  *)
(* them (the variables of the function, pc its position), or one call of   *)
(* similarity_score on arg_row and arg_client_data.                        *)
(***************************************************************************)
VARIABLES clients_df, transactions_df, client_id_list,
          pc, filtered_clients_df, all_closest_clients, best_new_clients, raised,
          arg_row, arg_client_data, ret_score,
          previous,
          new_clients, action_id, top_clients, displayed

inputs == <<clients_df, transactions_df, client_id_list>>

score_vars == <<arg_row, arg_client_data, ret_score>>

page_vars == <<new_clients, action_id, top_clients, displayed>>

vars == <<clients_df, transactions_df, client_id_list,
          pc, filtered_clients_df, all_closest_clients, best_new_clients, raised,
          arg_row, arg_client_data, ret_score, previous,
          new_clients, action_id, top_clients, displayed>>

NoRow == [client_id |-> "none"]

\* No earlier call of generate_best_new_clients with these arguments.
NoCall == [raised |-> "no call", value |-> <<>>]

\* The client-suggestion page is not open.
NoPage ==
    /\ new_clients = <<>>
    /\ action_id = "none"
    /\ top_clients = 0
    /\ displayed = <<>>

Init ==
    /\ clients_df \in ClientTables
    /\ transactions_df \in TransactionTables
    /\ client_id_list = <<>>
    /\ pc = "idle"
    /\ filtered_clients_df = <<>>
    /\ all_closest_clients = <<>>
    /\ best_new_clients = <<>>
    /\ raised = "none"
    /\ arg_row = NoRow
    /\ arg_client_data = NoRow
    /\ ret_score = 0
    /\ previous = NoCall
    /\ NoPage

\* The call generate_best_new_clients(ids, clients_df, transactions_df), to
\* the end of line 120.
FilterClients ==
    /\ pc = "idle"
    /\ \E ids \in SeqsUpTo(ClientIds, MaxSeeds) : client_id_list' = ids
    /\ filtered_clients_df' = filter_client_df(clients_df, transactions_df)
    /\ clients_df' = filter_client_df_leaves(clients_df, transactions_df)[1]
    /\ transactions_df' = filter_client_df_leaves(clients_df, transactions_df)[2]
    /\ pc' = "closest"
    /\ UNCHANGED <<all_closest_clients, best_new_clients, raised, score_vars, previous,
                   page_vars>>

\* Lines 124-126, one iteration that returns.
ClosestClientsReturns ==
    /\ pc = "closest"
    /\ Len(all_closest_clients) < Len(client_id_list)
    /\ \E out \in get_closest_clients(
                    client_id_list[Len(all_closest_clients) + 1], filtered_clients_df) :
          /\ out.raised = "none"
          /\ all_closest_clients' = Append(all_closest_clients, out.value)
    /\ UNCHANGED <<inputs, pc, filtered_clients_df, best_new_clients, raised, score_vars,
                   previous,
                   page_vars>>

\* Lines 124-126, one iteration that raises: the exception leaves the function.
ClosestClientsRaises ==
    /\ pc = "closest"
    /\ Len(all_closest_clients) < Len(client_id_list)
    /\ \E out \in get_closest_clients(
                    client_id_list[Len(all_closest_clients) + 1], filtered_clients_df) :
          /\ out.raised # "none"
          /\ raised' = out.raised
    /\ pc' = "raised"
    /\ UNCHANGED <<inputs, filtered_clients_df, all_closest_clients, best_new_clients,
                   score_vars, previous,
                   page_vars>>

\* Lines 128-140.
ReturnBest ==
    /\ pc = "closest"
    /\ Len(all_closest_clients) = Len(client_id_list)
    /\ best_new_clients' = DictOf(sorted_reverse(sum_scores(all_closest_clients)))
    /\ pc' = "returned"
    /\ UNCHANGED <<inputs, filtered_clients_df, all_closest_clients, raised, score_vars,
                   previous,
                   page_vars>>

Next == FilterClients \/ ClosestClientsReturns \/ ClosestClientsRaises \/ ReturnBest

Spec == Init /\ [][Next]_vars

(***************************************************************************)
(* A caller that calls generate_best_new_clients a second time with the    *)
(* list and the two frames it passed to the first call.                    *)
(***************************************************************************)
\* Line 120 of the second call; previous keeps what the first call gave.
CallAgain ==
    /\ pc \in {"returned", "raised"}
    /\ previous = NoCall
    /\ previous' = IF pc = "returned" THEN Return(best_new_clients) ELSE Raise(raised)
    /\ filtered_clients_df' = filter_client_df(clients_df, transactions_df)
    /\ clients_df' = filter_client_df_leaves(clients_df, transactions_df)[1]
    /\ transactions_df' = filter_client_df_leaves(clients_df, transactions_df)[2]
    /\ all_closest_clients' = <<>>
    /\ best_new_clients' = <<>>
    /\ raised' = "none"
    /\ pc' = "closest"
    /\ UNCHANGED <<client_id_list, score_vars,
                   page_vars>>

NextCalls ==
    FilterClients \/ ClosestClientsReturns \/ ClosestClientsRaises \/ ReturnBest
    \/ CallAgain

SpecCalls == Init /\ [][NextCalls]_vars

(***************************************************************************)
(* similarity_score alone, on any two rows of a filtered table.            *)
(***************************************************************************)
FilteredRows ==
    { ("client_id" :> id) @@ ("has_already_done_transaction" :> h) @@ p :
        id \in {"c1", "c2"}, h \in BOOLEAN, p \in Profiles }

InitScore ==
    /\ arg_row \in FilteredRows
    /\ arg_client_data \in FilteredRows
    /\ ret_score = 0
    /\ pc = "score"
    /\ clients_df = <<>>
    /\ transactions_df = <<>>
    /\ client_id_list = <<>>
    /\ filtered_clients_df = <<>>
    /\ all_closest_clients = <<>>
    /\ best_new_clients = <<>>
    /\ raised = "none"
    /\ previous = NoCall
    /\ NoPage

\* Lines 48-61.
SimilarityScore ==
    /\ pc = "score"
    /\ ret_score' = similarity_score(arg_row, arg_client_data)
    /\ pc' = "scored"
    /\ UNCHANGED <<inputs, filtered_clients_df, all_closest_clients, best_new_clients,
                   raised, arg_row, arg_client_data, previous,
                   page_vars>>

NextScore == SimilarityScore

SpecScore == InitScore /\ [][NextScore]_vars

(***************************************************************************)
(* The client-suggestion page: the button "Invite new clients".            *)
(* new_clients is best_new_clients.csv, a frame with the columns           *)
(* action_id, best_new_clients and uplift_pred; displayed is the column    *)
(* "Client ID" of the frame st.write shows.                                *)
(***************************************************************************)
ActionIds == {"a1", "a2"}

UpliftPreds == {1, 2, 3}

NewClientRows ==
    [action_id : ActionIds, best_new_clients : ClientIds, uplift_pred : UpliftPreds]

\* new_clients[new_clients["action_id"] == action_id]
filtered_new_clients(df, a) == SelectSeq(df, LAMBDA r : r.action_id = a)

RECURSIVE sort_by_uplift_pred(_)
\* The rows by descending uplift_pred; rows of equal uplift_pred keep their
\* order (nlargest has keep="first").
sort_by_uplift_pred(df) ==
    IF df = <<>> THEN <<>>
    ELSE LET n == Len(df)
             head == sort_by_uplift_pred(SubSeq(df, 1, n - 1))
             last == df[n]
         IN SelectSeq(head, LAMBDA r : r.uplift_pred >= last.uplift_pred)
            \o <<last>>
            \o SelectSeq(head, LAMBDA r : r.uplift_pred < last.uplift_pred)

\* df.nlargest(n, "uplift_pred"): the first n rows of the sorted frame.
nlargest(df, n) ==
    LET sorted == sort_by_uplift_pred(df)
    IN SubSeq(sorted, 1, IF n < Len(sorted) THEN n ELSE Len(sorted))

RECURSIVE drop_duplicates(_)
\* drop_duplicates() of a one-column frame: the first occurrence is kept.
drop_duplicates(column) ==
    IF column = <<>> THEN <<>>
    ELSE LET n == Len(column)
             head == drop_duplicates(SubSeq(column, 1, n - 1))
         IN IF \E k \in DOMAIN head : head[k] = column[n]
            THEN head
            ELSE Append(head, column[n])

\* Lines 98-103 and the frame of lines 106-110.
invite_new_clients(df, a, n) ==
    LET top == nlargest(filtered_new_clients(df, a), n)
    IN drop_duplicates([k \in DOMAIN top |-> top[k].best_new_clients])

\* The page is open: the table is loaded, an action is selected and a number
\* of clients, at least 1, is entered.
InitPage ==
    /\ new_clients \in SeqsUpTo(NewClientRows, MaxNewClients)
    /\ action_id \in ActionIds
    /\ top_clients \in 1..MaxTopClients
    /\ displayed = <<>>
    /\ pc = "page"
    /\ clients_df = <<>>
    /\ transactions_df = <<>>
    /\ client_id_list = <<>>
    /\ filtered_clients_df = <<>>
    /\ all_closest_clients = <<>>
    /\ best_new_clients = <<>>
    /\ raised = "none"
    /\ arg_row = NoRow
    /\ arg_client_data = NoRow
    /\ ret_score = 0
    /\ previous = NoCall

\* "Invite new clients" is pressed: lines 94-110.
InviteNewClients ==
    /\ pc = "page"
    /\ displayed' = invite_new_clients(new_clients, action_id, top_clients)
    /\ pc' = "displayed"
    /\ UNCHANGED <<new_clients, action_id, top_clients, inputs, filtered_clients_df,
                   all_closest_clients, best_new_clients, raised, score_vars, previous>>

NextPage == InviteNewClients

SpecPage == InitPage /\ [][NextPage]_vars

(***************************************************************************)
(* Vocabulary of the properties.                                           *)
(***************************************************************************)
ClientIdsOf(df) == { df[k].client_id : k \in DOMAIN df }

HasTransaction(id) ==
    \E k \in DOMAIN transactions_df : transactions_df[k].client_id = id

\* The row of clients.csv of a client.
ClientOf(id) ==
    clients_df[CHOOSE k \in DOMAIN clients_df : clients_df[k].client_id = id]

Seeds == { client_id_list[k] : k \in DOMAIN client_id_list }

\* The weights of the attributes on which two clients are equal, as stated:
\* country 1, nationality 3, city 5, gender 3.
StatedWeights(a, b) ==
    (IF a.client_country = b.client_country THEN 1 ELSE 0)
    + (IF a.client_nationality = b.client_nationality THEN 3 ELSE 0)
    + (IF a.client_city = b.client_city THEN 5 ELSE 0)
    + (IF a.client_gender = b.client_gender THEN 3 ELSE 0)

SameGroup(a, b) ==
    /\ a.client_segment = b.client_segment
    /\ a.client_premium_status = b.client_premium_status

RECURSIVE SumSeq(_)
SumSeq(q) == IF q = <<>> THEN 0 ELSE q[Len(q)] + SumSeq(SubSeq(q, 1, Len(q) - 1))

\* The score of a client in a dict, 0 when it is no key.
ScoreIn(d, id) == IF id \in Keys(d) THEN Get(d, id) ELSE 0

\* The seed of the loop iteration the call is in or raised in.
CurrentSeed == client_id_list[Len(all_closest_clients) + 1]

(***************************************************************************)
(* C1: every key of the mapping generate_best_new_clients returns is a     *)
(* client with no transaction, and no key is one of the seeds.             *)
(* The code never removes the seeds from the candidates: a seed without    *)
(* transaction is its own closest client.                                  *)
(***************************************************************************)
C1_KeysAreNewAndNotSeeds ==
    pc = "returned" =>
        \A key \in Keys(best_new_clients) :
            ~HasTransaction(key) /\ key \notin Seeds

(***************************************************************************)
(* C2 as stated: the value of a key X is the sum over ALL seeds of the     *)
(* list of the weights of the attributes on which X equals the seed, and   *)
(* is at most 12 times the number of seeds.                                *)
(***************************************************************************)
C2_ScoreSumsOverAllSeeds ==
    pc = "returned" =>
        \A X \in Keys(best_new_clients) :
            /\ Get(best_new_clients, X) =
                   SumSeq([k \in DOMAIN client_id_list |->
                              StatedWeights(ClientOf(X), ClientOf(client_id_list[k]))])
            /\ Get(best_new_clients, X) <= 12 * Len(client_id_list)

(***************************************************************************)
(* C2 amended: the value of a key X is the sum, over the seeds of the list *)
(* (with multiplicity) that have the segment and the premium status of X,  *)
(* of the weights of the attributes on which X equals the seed; it is at   *)
(* most 12 times the number of seeds.                                      *)
(***************************************************************************)
C2_ScoreSumsOverSeedsOfItsGroup ==
    pc = "returned" =>
        \A X \in Keys(best_new_clients) :
            /\ Get(best_new_clients, X) =
                   SumSeq([k \in DOMAIN client_id_list |->
                              IF SameGroup(ClientOf(X), ClientOf(client_id_list[k]))
                              THEN StatedWeights(ClientOf(X), ClientOf(client_id_list[k]))
                              ELSE 0])
            /\ Get(best_new_clients, X) <= 12 * Len(client_id_list)

\* A key scored against two seeds, one of its group and one of another
\* group that shares an attribute with it.
C2_Witness ==
    /\ pc = "returned"
    /\ \E X \in Keys(best_new_clients), j, k \in DOMAIN client_id_list :
          /\ X \notin Seeds
          /\ SameGroup(ClientOf(X), ClientOf(client_id_list[j]))
          /\ ~SameGroup(ClientOf(X), ClientOf(client_id_list[k]))
          /\ StatedWeights(ClientOf(X), ClientOf(client_id_list[k])) > 0
          /\ Get(best_new_clients, X) =
                 StatedWeights(ClientOf(X), ClientOf(client_id_list[j]))

(***************************************************************************)
(* C3: get_closest_clients signals a lookup failure only for a seed id     *)
(* that is absent from the original client table.                          *)
(* The code looks the seed up in the filtered table: a seed whose          *)
(* client_is_contactable is not 1 raises IndexError.                       *)
(***************************************************************************)
C3_LookupFailsOnlyWhenAbsent ==
    raised = "IndexError" => CurrentSeed \notin ClientIdsOf(clients_df)

(***************************************************************************)
(* C4: when some seed of the list cannot be looked up (no row of the       *)
(* client table with client_is_contactable = 1 carries its id), the call   *)
(* never returns a mapping: the loop never goes past the seed, the result  *)
(* stays empty, and the call that has left the loop has raised.            *)
(***************************************************************************)
CanBeLookedUp(id) ==
    \E k \in DOMAIN clients_df :
        clients_df[k].client_id = id /\ clients_df[k].client_is_contactable = 1

C4_UnknownSeedIsFatal ==
    \A k \in DOMAIN client_id_list :
        ~CanBeLookedUp(client_id_list[k]) =>
            /\ pc \in {"closest", "raised"}
            /\ Len(all_closest_clients) < k
            /\ best_new_clients = <<>>
            /\ pc = "raised" <=> raised # "none"

\* The second seed is unknown, the first was looked up and scored.
C4_Witness ==
    /\ pc = "raised"
    /\ raised = "IndexError"
    /\ Len(client_id_list) = 2
    /\ all_closest_clients # <<>>
    /\ all_closest_clients[1] # <<>>
    /\ ~CanBeLookedUp(client_id_list[2])

(***************************************************************************)
(* C5: a client whose client_is_contactable is not 1 is in no row of the   *)
(* frame filter_client_df returns and is no key of the mapping             *)
(* generate_best_new_clients returns.                                      *)
(***************************************************************************)
C5_NotContactableNeverSuggested ==
    \A k \in DOMAIN clients_df :
        clients_df[k].client_is_contactable # 1 =>
            /\ clients_df[k].client_id \notin ClientIdsOf(filtered_clients_df)
            /\ clients_df[k].client_id \notin Keys(best_new_clients)

\* A mapping is returned while a client without transaction that is not
\* contactable has the segment, the status and the attributes of a seed.
C5_Witness ==
    /\ pc = "returned"
    /\ best_new_clients # <<>>
    /\ \E k \in DOMAIN clients_df, j \in DOMAIN client_id_list :
          /\ clients_df[k].client_is_contactable # 1
          /\ ~HasTransaction(clients_df[k].client_id)
          /\ SameGroup(clients_df[k], ClientOf(client_id_list[j]))
          /\ StatedWeights(clients_df[k], ClientOf(client_id_list[j])) = 12

(***************************************************************************)
(* C6: the mapping generate_best_new_clients returns has non-increasing    *)
(* scores in its iteration order, and no id is a key twice.                *)
(***************************************************************************)
C6_SortedDescendingUniqueKeys ==
    pc = "returned" =>
        \A j, k \in DOMAIN best_new_clients :
            j < k =>
                /\ best_new_clients[j][2] >= best_new_clients[k][2]
                /\ best_new_clients[j][1] # best_new_clients[k][1]

\* Three keys that the accumulation left in increasing order of score.
C6_Witness ==
    /\ pc = "returned"
    /\ Len(best_new_clients) = 3
    /\ LET summed == sum_scores(all_closest_clients)
       IN summed[1][2] < summed[2][2] /\ summed[2][2] < summed[3][2]

(***************************************************************************)
(* C7: the aggregate score of every client is the sum, over the positions  *)
(* of the seed list, of its score in the mapping get_closest_clients gave  *)
(* for the seed at that position (0 when it is no key of it); the keys of  *)
(* the result are the keys of the per-seed mappings; and an empty seed     *)
(* list gives an empty mapping.                                            *)
(***************************************************************************)
C7_AggregateIsSumOfPerSeedScores ==
    pc = "returned" =>
        /\ Len(all_closest_clients) = Len(client_id_list)
        /\ \A k \in DOMAIN client_id_list :
              Return(all_closest_clients[k])
                  \in get_closest_clients(client_id_list[k], filtered_clients_df)
        /\ \A id \in ClientIds :
              /\ id \in Keys(best_new_clients)
                    <=> \E k \in DOMAIN all_closest_clients :
                            id \in Keys(all_closest_clients[k])
              /\ ScoreIn(best_new_clients, id) =
                     SumSeq([k \in DOMAIN all_closest_clients |->
                                ScoreIn(all_closest_clients[k], id)])
        /\ client_id_list = <<>> => best_new_clients = <<>>

\* A candidate with different scores against two different seeds.
C7_Witness ==
    /\ pc = "returned"
    /\ Len(client_id_list) = 2
    /\ client_id_list[1] # client_id_list[2]
    /\ \E id \in Keys(best_new_clients) :
          /\ id \notin Seeds
          /\ ScoreIn(all_closest_clients[1], id) > 0
          /\ ScoreIn(all_closest_clients[2], id) > ScoreIn(all_closest_clients[1], id)

(***************************************************************************)
(* C8: a seed list that ends with a second occurrence of one of its seeds  *)
(* gives the mapping of the list without this last seed, with the per-seed *)
(* score of the seed added once more to each of its candidates; so [A, A]  *)
(* gives the keys of [A] with every score doubled.                         *)
(***************************************************************************)
C8_DuplicateSeedCountsTwice ==
    LET n == Len(client_id_list)
        shorter == SubSeq(client_id_list, 1, n - 1)
    IN (pc = "returned" /\ n >= 2
            /\ \E k \in 1..(n - 1) : client_id_list[k] = client_id_list[n]) =>
        /\ \E out \in generate_best_new_clients(shorter, clients_df, transactions_df) :
              out.raised = "none"
        /\ \A out \in generate_best_new_clients(shorter, clients_df, transactions_df) :
              out.raised = "none" =>
                  /\ Keys(best_new_clients) = Keys(out.value)
                  /\ \A id \in ClientIds :
                        ScoreIn(best_new_clients, id) =
                            ScoreIn(out.value, id) + ScoreIn(all_closest_clients[n], id)
                  /\ n = 2 =>
                        \A id \in ClientIds :
                            ScoreIn(best_new_clients, id) = 2 * ScoreIn(out.value, id)

\* [A, A] with two candidates of different scores.
C8_Witness ==
    /\ pc = "returned"
    /\ Len(client_id_list) = 2
    /\ client_id_list[1] = client_id_list[2]
    /\ Len(best_new_clients) >= 2
    /\ best_new_clients[1][2] = 2 * ScoreIn(all_closest_clients[1], best_new_clients[1][1])
    /\ best_new_clients[1][2] > best_new_clients[2][2]

(***************************************************************************)
(* C9: similarity_score(row, seed) is the sum of the weights country 1,    *)
(* nationality 3, city 5, gender 3 over the attributes on which row and    *)
(* seed are equal, whatever their other columns; it lies between 0 and 12, *)
(* and is 4 when they share the country and the gender only.               *)
(***************************************************************************)
C9_ScoreIsSumOfMatchingWeights ==
    pc = "scored" =>
        /\ ret_score = StatedWeights(arg_row, arg_client_data)
        /\ ret_score \in 0..12
        /\ (/\ arg_row.client_country = arg_client_data.client_country
            /\ arg_row.client_gender = arg_client_data.client_gender
            /\ arg_row.client_nationality # arg_client_data.client_nationality
            /\ arg_row.client_city # arg_client_data.client_city) => ret_score = 4

\* Country and gender shared, everything else different.
C9_Witness ==
    /\ pc = "scored"
    /\ ret_score = 4
    /\ arg_row.client_country = arg_client_data.client_country
    /\ arg_row.client_gender = arg_client_data.client_gender
    /\ arg_row.client_nationality # arg_client_data.client_nationality
    /\ arg_row.client_city # arg_client_data.client_city
    /\ arg_row.client_segment # arg_client_data.client_segment
    /\ arg_row.client_premium_status # arg_client_data.client_premium_status
    /\ arg_row.client_id # arg_client_data.client_id

(***************************************************************************)
(* C10: filter_client_df returns the rows of the client table whose        *)
(* client_is_contactable is 1, in their order; each has                    *)
(* has_already_done_transaction true exactly when its client_id is the     *)
(* client_id of a row of the transaction table, has none of the four       *)
(* contactability columns, and keeps every other column.  Stated of the    *)
(* frame as filter_client_df has just returned it.                         *)
(***************************************************************************)
Contactable == { k \in DOMAIN clients_df : clients_df[k].client_is_contactable = 1 }

\* The j-th contactable row of the client table.
NthContactable(j) ==
    clients_df[CHOOSE k \in Contactable :
                  Cardinality({ i \in Contactable : i <= k }) = j]

C10_FilterKeepsContactableRows ==
    (pc = "closest" /\ all_closest_clients = <<>>) =>
        /\ Len(filtered_clients_df) = Cardinality(Contactable)
        /\ \A j \in DOMAIN filtered_clients_df :
              LET kept == filtered_clients_df[j]
                  row == NthContactable(j)
              IN /\ DOMAIN kept = (DOMAIN row \ ContactabilityColumns)
                                      \cup {"has_already_done_transaction"}
                 /\ \A c \in DOMAIN row \ ContactabilityColumns : kept[c] = row[c]
                 /\ kept.has_already_done_transaction
                        <=> HasTransaction(row.client_id)

\* A client is dropped between two that are kept, one with a transaction
\* and one with none.
C10_Witness ==
    /\ pc = "closest"
    /\ Len(clients_df) = 3
    /\ clients_df[2].client_is_contactable # 1
    /\ Len(filtered_clients_df) = 2
    /\ filtered_clients_df[1].has_already_done_transaction
    /\ ~filtered_clients_df[2].has_already_done_transaction

(***************************************************************************)
(* C11: the mapping get_closest_clients returns for a seed S of the        *)
(* filtered table has as keys exactly the clients of the filtered table    *)
(* with the segment and the premium status of S, without transaction, and  *)
(* equal to S on at least one of country, nationality, city and gender;    *)
(* the value of a key is the sum of the weights of the attributes on which *)
(* it equals S, hence at least 1.  Stated of the mapping the loop has just *)
(* appended, for the seed of that iteration.                               *)
(***************************************************************************)
FilteredOf(id) ==
    filtered_clients_df[CHOOSE k \in DOMAIN filtered_clients_df :
                            filtered_clients_df[k].client_id = id]

SharesAnAttribute(a, b) ==
    \/ a.client_country = b.client_country
    \/ a.client_nationality = b.client_nationality
    \/ a.client_city = b.client_city
    \/ a.client_gender = b.client_gender

C11_ClosestClientsOfASeed ==
    (pc = "closest" /\ all_closest_clients # <<>>) =>
        LET n == Len(all_closest_clients)
            closest == all_closest_clients[n]
            S == FilteredOf(client_id_list[n])
        IN /\ client_id_list[n] \in ClientIdsOf(filtered_clients_df)
           /\ Keys(closest) =
                  { filtered_clients_df[k].client_id : k \in
                      { k \in DOMAIN filtered_clients_df :
                          /\ SameGroup(filtered_clients_df[k], S)
                          /\ ~filtered_clients_df[k].has_already_done_transaction
                          /\ SharesAnAttribute(filtered_clients_df[k], S) } }
           /\ \A j, k \in DOMAIN closest : closest[j][1] = closest[k][1] => j = k
           /\ \A key \in Keys(closest) :
                 /\ Get(closest, key) = StatedWeights(FilteredOf(key), S)
                 /\ Get(closest, key) >= 1

\* Besides a key that is not the seed, the filtered table has a client of
\* the seed's group without transaction that shares nothing with the seed,
\* or a client without transaction of another group that shares something.
C11_Witness ==
    /\ pc = "closest"
    /\ all_closest_clients # <<>>
    /\ LET n == Len(all_closest_clients)
           S == FilteredOf(client_id_list[n])
       IN /\ \E key \in Keys(all_closest_clients[n]) : key # client_id_list[n]
          /\ \E k \in DOMAIN filtered_clients_df :
                LET r == filtered_clients_df[k]
                IN /\ ~r.has_already_done_transaction
                   /\ r.client_id \notin Keys(all_closest_clients[n])
                   /\ \/ SameGroup(r, S) /\ ~SharesAnAttribute(r, S)
                      \/ ~SameGroup(r, S) /\ SharesAnAttribute(r, S)

Reordered(ids, f) == [k \in DOMAIN ids |-> ids[f[k]]]

C13_SeedOrderIrrelevant ==
    pc = "returned" =>
        \A f \in Permutations(DOMAIN client_id_list) :
            LET outcomes == generate_best_new_clients(
                                Reordered(client_id_list, f), clients_df, transactions_df)
            IN /\ \E out \in outcomes : out.raised = "none"
               /\ \A out \in outcomes :
                     out.raised = "none" =>
                        /\ Keys(out.value) = Keys(best_new_clients)
                        /\ \A key \in Keys(best_new_clients) :
                              Get(out.value, key) = Get(best_new_clients, key)

\* Two different seeds give one client different scores, and the seeds in
\* the other order give the same scores with the keys in another order.
C13_Witness ==
    /\ pc = "returned"
    /\ Len(client_id_list) = 2
    /\ client_id_list[1] # client_id_list[2]
    /\ \E key \in Keys(all_closest_clients[1]) \cap Keys(all_closest_clients[2]) :
          Get(all_closest_clients[1], key) # Get(all_closest_clients[2], key)
    /\ \E out \in generate_best_new_clients(
                    <<client_id_list[2], client_id_list[1]>>, clients_df, transactions_df) :
          /\ out.raised = "none"
          /\ out.value # best_new_clients

(***************************************************************************)
(* C14: "Invite new clients" with action A and count N displays the N      *)
(* distinct client ids with the highest uplift_pred among the rows of      *)
(* new_clients for A, all the distinct ids of A when there are fewer than  *)
(* N: no id is displayed twice, every displayed id has a row of A, the     *)
(* number of ids displayed is min(N, number of distinct ids of A), and no  *)
(* id left out has a row of A with a higher uplift_pred than the best row  *)
(* of a displayed id.                                                      *)
(***************************************************************************)
RowsOfAction == filtered_new_clients(new_clients, action_id)

IdsOfAction == { RowsOfAction[k].best_new_clients : k \in DOMAIN RowsOfAction }

BestUpliftOf(id) ==
    CHOOSE u \in UpliftPreds :
        /\ \E k \in DOMAIN RowsOfAction :
              RowsOfAction[k].best_new_clients = id /\ RowsOfAction[k].uplift_pred = u
        /\ \A k \in DOMAIN RowsOfAction :
              RowsOfAction[k].best_new_clients = id => RowsOfAction[k].uplift_pred <= u

Displayed == { displayed[k] : k \in DOMAIN displayed }

C14_DisplaysTopDistinctClients ==
    pc = "displayed" =>
        /\ \A j, k \in DOMAIN displayed : displayed[j] = displayed[k] => j = k
        /\ Displayed \subseteq IdsOfAction
        /\ Len(displayed) = IF top_clients < Cardinality(IdsOfAction)
                            THEN top_clients ELSE Cardinality(IdsOfAction)
        /\ \A shown \in Displayed : \A left \in IdsOfAction \ Displayed :
              BestUpliftOf(shown) >= BestUpliftOf(left)

====
